---- MODULE Spec2Model ----
(***************************************************************************)
(* State-machine model of the StudyCAT quiz engine session layer:          *)
(* SessionService / SessionStore (src/session_service.py), the placeholder *)
(* IRTAdapter (src/irt_adapter.py), the Dataset lookups (src/dataset.py)   *)
(* and the HTTP handlers that drive them (src/routers.py).                 *)
(*                                                                         *)
(* The skill models of the IRT engine (src/models/unidimensional.py,       *)
(* src/models/multidimensional.py) are a second layer with its own         *)
(* specification, SpecModels.  The orchestration that rebuilds them from   *)
(* the database on every call (src/service/core.py, src/engine/adapter.py, *)
(* src/db/repo.py) is a third layer, SpecCore.                             *)
(*                                                                         *)
(* Conventions                                                             *)
(*   - Python None is the string "None" for id-valued optionals and        *)
(*     NoIndex for the optional integer answer_index.                      *)
(*   - An ItemRecord is referred to by its item_id (Dataset._by_id is      *)
(*     keyed by it); its fields are looked up in ItemBank.                 *)
(*   - theta values are counted in tenths: the adapter moves theta by      *)
(*     +0.1 / -0.1, the mastery heuristic cuts at 0.5.                     *)
(*   - A Python dict is a sequence of [k, v] records in insertion order.   *)
(*   - session ids (uuid4 strings, always fresh) are 1, 2, ... in order of *)
(*     creation; the store is the sequence of the sessions created.        *)
(*   - A TestItem object is referred to by its id; an ItemPool is the      *)
(*     sequence ItemPool.test_items.  In the skill models theta is counted *)
(*     in whole units of the ability scale.                                *)
(***************************************************************************)
EXTENDS Integers, Sequences, FiniteSets, TLC

VARIABLES
    store,      \* SessionStore._data: session id -> SessionState
    rng,        \* IRTAdapter._rng: the state of the one shared generator
    presented,  \* per session: the item most recently returned to the client
    last,       \* the most recent call: its inputs, its error, what it returned
    models,     \* MultidimensionalModel.models: skill -> UnidimensionalModel
    mlast,      \* the most recent call on the skill models
    responses,  \* the Response rows of the attempt, in answeredAt order
    clast,      \* the most recent step_attempt call: its inputs and its outcome
    twin,       \* the service as it would be had only the second session called it
    threads,    \* the requests in flight: step on the worker threads,
                \* step_attempt as coroutines of the event loop
    attempt,    \* the scope and prior init_attempt resolved for the attempt
    attempt_states, \* core_hardcoded._attempt_states: attempt id -> state
    returned,   \* per attempt: the items returned since its last init_attempt
    hlast       \* the most recent call of the hardcoded core and its result

\* the session layer and the skill-model layer share no state
svars == <<store, rng, presented, last>>
mvars == <<models, mlast>>
cvars == <<responses, clast>>
hvars == <<attempt_states, returned, hlast>>
xvars == <<twin, threads, attempt, hvars>>

vars == <<store, rng, presented, last, models, mlast, responses, clast, twin, threads, attempt,
         attempt_states, returned, hlast>>

None == "None"

\* answer_index omitted in the request (StepRequest.answer_index = None)
NoIndex == -99

(***************************************************************************)
(* Bounds of the model                                                     *)
(***************************************************************************)
MaxItems    == 2    \* largest max_items a client asks for
ThetaBound  == 2    \* |theta| explored, in tenths
RngPeriod   == 2    \* states of the abstract generator
MaxResponses == 2   \* responses recorded into one set of skill models
MaxDbResponses == 2 \* Response rows of the attempt

(***************************************************************************)
(* Dataset (src/dataset.py)                                                *)
(***************************************************************************)
\* the item bank in Dataset._by_id insertion (row) order
ItemBank ==
    << [item_id |-> "q1", concept |-> "A", correct_index |-> 0],
       [item_id |-> "q2", concept |-> "B", correct_index |-> 1] >>

\* len(item.options): one option per label A, B, C, D
NumOptions == 4

\* sorted() order of the concept names used
ConceptOrder == <<"A", "B", "C", "general">>

Range(s) == {s[i] : i \in DOMAIN s}

ItemIds == {ItemBank[i].item_id : i \in DOMAIN ItemBank}

Item(item_id) == ItemBank[CHOOSE i \in DOMAIN ItemBank : ItemBank[i].item_id = item_id]

\* Dataset.get_item: the record's id, or None
get_item(item_id) == IF item_id \in ItemIds THEN item_id ELSE None

\* Dataset.items_by_concepts: ids in bank order
items_by_concepts(concepts) ==
    LET all == [i \in DOMAIN ItemBank |-> ItemBank[i].item_id]
        InScope(id) == Item(id).concept \in Range(concepts)
    IN  IF concepts = <<>> THEN all ELSE SelectSeq(all, InScope)

(***************************************************************************)
(* IRTAdapter (src/irt_adapter.py)                                         *)
(***************************************************************************)
Keys(d) == {d[i].k : i \in DOMAIN d}

Get(d, key, default) ==
    IF key \in Keys(d) THEN d[CHOOSE i \in DOMAIN d : d[i].k = key].v ELSE default

Put(d, key, val) ==
    IF key \in Keys(d)
    THEN [i \in DOMAIN d |-> IF d[i].k = key THEN [k |-> key, v |-> val] ELSE d[i]]
    ELSE Append(d, [k |-> key, v |-> val])

init_theta(concepts, prior_mu) ==
    LET Build[n \in 0..Len(concepts)] ==
            IF n = 0 THEN <<>> ELSE Put(Build[n - 1], concepts[n], prior_mu)
    IN  Build[Len(concepts)]

update_theta(theta, item_id, is_correct) ==
    LET concept == IF Item(item_id).concept # None THEN Item(item_id).concept ELSE theta[1].k
        step    == IF is_correct THEN 1 ELSE -1
    IN  Put(theta, concept, Get(theta, concept, 0) + step)

\* random.Random.choice(pool): one draw, which advances the generator
rng_choice(r, pool) == [item |-> pool[(r % Len(pool)) + 1], rng |-> (r + 1) % RngPeriod]

\* a selection that draws from all candidates, asked or not
select_next_any(theta, candidates, asked, r) ==
    IF candidates = <<>> THEN [item |-> None, rng |-> r] ELSE rng_choice(r, candidates)

select_next(theta, candidates, asked, r) ==
    LET Unasked(id) == id \notin asked
        pool == SelectSeq(candidates, Unasked)
    IN  IF pool = <<>> THEN [item |-> None, rng |-> r] ELSE rng_choice(r, pool)

(***************************************************************************)
(* SessionService (src/session_service.py)                                 *)
(***************************************************************************)
\* SessionState; session_id is the state's index in the store
SessionState(concepts, max_items, theta) ==
    [concepts |-> concepts, max_items |-> max_items, theta |-> theta,
     asked |-> <<>>, finished |-> FALSE]

\* sorted({it.concept for it in all_items if it.concept})
unique_concepts ==
    LET Used(c) == \E i \in DOMAIN ItemBank : ItemBank[i].concept = c
    IN  SelectSeq(ConceptOrder, Used)

\* SessionService.init_session.  max_items = 0 stands for an omitted (or zero)
\* max_items: the default is read from settings.MAX_SESSION_ITEMS, a field
\* Settings does not declare, so the call raises before a session is stored.
init_session(concepts, max_items, prior_mu) ==
    LET resolved == IF concepts # <<>> THEN concepts
                    ELSE IF unique_concepts # <<>> THEN unique_concepts
                    ELSE <<"general">>
    IN  IF max_items = 0
        THEN [err |-> "AttributeError", state |-> SessionState(resolved, 0, <<>>)]
        ELSE [err |-> "ok",
              state |-> SessionState(resolved, max_items, init_theta(resolved, prior_mu))]

\* a stop rule that lets one item too many through
stop_rule_strict(state) == Len(state.asked) > state.max_items

\* the stop rule of SessionService.step / next_item: max_items reached
stop_rule(state) == Len(state.asked) >= state.max_items

\* SessionService.next_item
next_item(state, r) ==
    IF state.finished \/ stop_rule(state)
    THEN [state |-> [state EXCEPT !.finished = TRUE], item |-> None, rng |-> r]
    ELSE LET s == select_next(state.theta, items_by_concepts(state.concepts),
                              Range(state.asked), r)
         IN  [state |-> state, item |-> s.item, rng |-> s.rng]

\* a submit that checks answer_index only after theta and asked are assigned
submit_answer_late_check(state, item_id, answer_index) ==
    IF item_id # None /\ answer_index # NoIndex
    THEN IF get_item(item_id) = None
         THEN [err |-> "Unknown item_id", state |-> state]
         ELSE LET is_correct == (answer_index = Item(item_id).correct_index)
                  assigned == [state EXCEPT
                       !.theta = update_theta(state.theta, item_id, is_correct),
                       !.asked = IF item_id \in Range(state.asked)
                                 THEN state.asked
                                 ELSE Append(state.asked, item_id)]
              IN  IF ~(0 <= answer_index /\ answer_index < NumOptions)
                  THEN [err |-> "answer_index is out of range", state |-> assigned]
                  ELSE [err |-> "ok", state |-> assigned]
    ELSE [err |-> "ok", state |-> state]

\* a submit that takes an omitted answer_index for a wrong answer
submit_answer_item_only(state, item_id, answer_index) ==
    IF item_id # None
    THEN IF get_item(item_id) = None
         THEN [err |-> "Unknown item_id", state |-> state]
         ELSE IF answer_index # NoIndex /\ ~(0 <= answer_index /\ answer_index < NumOptions)
         THEN [err |-> "answer_index is out of range", state |-> state]
         ELSE LET is_correct == (answer_index = Item(item_id).correct_index)
              IN  [err |-> "ok",
                   state |-> [state EXCEPT
                       !.theta = update_theta(state.theta, item_id, is_correct),
                       !.asked = IF item_id \in Range(state.asked)
                                 THEN state.asked
                                 ELSE Append(state.asked, item_id)]]
    ELSE [err |-> "ok", state |-> state]

\* SessionService.step, "Submit previous answer if present"
submit_answer(state, item_id, answer_index) ==
    IF item_id # None /\ answer_index # NoIndex
    THEN IF get_item(item_id) = None
         THEN [err |-> "Unknown item_id", state |-> state]
         ELSE IF ~(0 <= answer_index /\ answer_index < NumOptions)
         THEN [err |-> "answer_index is out of range", state |-> state]
         ELSE LET is_correct == (answer_index = Item(item_id).correct_index)
              IN  [err |-> "ok",
                   state |-> [state EXCEPT
                       !.theta = update_theta(state.theta, item_id, is_correct),
                       !.asked = IF item_id \in Range(state.asked)
                                 THEN state.asked
                                 ELSE Append(state.asked, item_id)]]
    ELSE [err |-> "ok", state |-> state]

\* a step that reopens a session it finds finished
advance_reopening(state, r) ==
    IF state.finished
    THEN [state |-> [state EXCEPT !.finished = FALSE], item |-> None, rng |-> r]
    ELSE IF stop_rule(state)
    THEN [state |-> [state EXCEPT !.finished = TRUE], item |-> None, rng |-> r]
    ELSE next_item(state, r)

\* SessionService.step, "Stop rule (MVP)" and the selection of the next item
advance(state, r) ==
    IF stop_rule(state)
    THEN [state |-> [state EXCEPT !.finished = TRUE], item |-> None, rng |-> r]
    ELSE next_item(state, r)

\* a step that opens a default session for an id it does not know
step_creating(st, session_id, item_id, answer_index, r) ==
    IF session_id \notin DOMAIN st
    THEN [err |-> "ok",
          store |-> Append(st, SessionState(<<"general">>, 1, init_theta(<<"general">>, 0))),
          next_item |-> None, rng |-> r]
    ELSE LET sub == submit_answer(st[session_id], item_id, answer_index)
             adv == advance(sub.state, r)
         IN  IF sub.err # "ok"
             THEN [err |-> sub.err, store |-> [st EXCEPT ![session_id] = sub.state],
                   next_item |-> None, rng |-> r]
             ELSE [err |-> "ok", store |-> [st EXCEPT ![session_id] = adv.state],
                   next_item |-> adv.item, rng |-> adv.rng]

\* SessionService.step on the store st.  SessionState objects are mutated in
\* place, so what a failing call has assigned so far stays in the store.
step(st, session_id, item_id, answer_index, r) ==
    IF session_id \notin DOMAIN st
    THEN [err |-> "Invalid session_id", store |-> st, next_item |-> None, rng |-> r]
    ELSE LET sub == submit_answer(st[session_id], item_id, answer_index)
             adv == advance(sub.state, r)
         IN  IF sub.err # "ok"
             THEN [err |-> sub.err, store |-> [st EXCEPT ![session_id] = sub.state],
                   next_item |-> None, rng |-> r]
             ELSE [err |-> "ok", store |-> [st EXCEPT ![session_id] = adv.state],
                   next_item |-> adv.item, rng |-> adv.rng]

\* routers.step: next_action
next_action(finished) == IF finished THEN "FINISH" ELSE "CONTINUE"

(***************************************************************************)
(* UnidimensionalModel (src/models/unidimensional.py) over the             *)
(* adaptivetesting TestAssembler it wraps                                  *)
(***************************************************************************)
\* TestAssembler.standard_error before the first estimate
NoSe == -1

\* "optimization_interval": (-4, 4), the range of every estimate
OptInterval == 4

\* the TestItem objects callers hold, with their difficulty b (a and c are the
\* same for all of them)
TestItemBank ==
    << [id |-> "t1", b |-> 0], [id |-> "t2", b |-> 2], [id |-> "t3", b |-> 0] >>

TestItemIds == {TestItemBank[i].id : i \in DOMAIN TestItemBank}

TestItem(id) == TestItemBank[CHOOSE i \in DOMAIN TestItemBank : TestItemBank[i].id = id]

Abs(x) == IF x < 0 THEN -x ELSE x

\* UnidimensionalModel.__init__ with the class attributes questions_left and
\* mastery_reached
UnidimensionalModel(skill, mastery_threshold, item_pool, initial_theta) ==
    [skill |-> skill, mastery_threshold |-> mastery_threshold,
     item_pool |-> item_pool, response_pattern |-> <<>>, answered_items |-> <<>>,
     ability_level |-> initial_theta, standard_error |-> NoSe,
     questions_left |-> TRUE, mastery_reached |-> FALSE]

\* ItemPool.delete_item on a pool that holds the item: test_items.index(item),
\* then pop(index)
delete_item(item_pool, item) ==
    LET index == CHOOSE i \in DOMAIN item_pool :
                     item_pool[i] = item /\ \A j \in 1..(i - 1) : item_pool[j] # item
    IN  [i \in 1..(Len(item_pool) - 1) |->
            IF i < index THEN item_pool[i] ELSE item_pool[i + 1]]

\* TestAssembler.estimate_ability_level: the BayesModal estimate over the whole
\* response pattern under a prior centred at 0.  Each correct answer moves the
\* estimate one unit up, each incorrect one a unit down, inside the
\* optimisation interval; the standard error is known by the number of answered
\* items it was computed from.
estimate_ability_level(response_pattern, answered_items) ==
    LET Sum[n \in 0..Len(response_pattern)] ==
            IF n = 0 THEN 0
            ELSE Sum[n - 1] + (IF response_pattern[n] = 1 THEN 1 ELSE -1)
        raw == Sum[Len(response_pattern)]
        est == IF raw > OptInterval THEN OptInterval
               ELSE IF raw < -OptInterval THEN -OptInterval ELSE raw
    IN  [est |-> est, se |-> Len(answered_items)]

\* maximum_information_criterion: with equal a and c the information of an item
\* is largest where b is closest to the ability; the first such item of the
\* pool wins.  None stands for ItemSelectionException (nothing to select).
maximum_information_criterion(item_pool, ability_level) ==
    IF item_pool = <<>> THEN None
    ELSE LET Dist(i) == Abs(TestItem(item_pool[i]).b - ability_level)
             best == CHOOSE i \in DOMAIN item_pool :
                         /\ \A j \in DOMAIN item_pool : Dist(i) <= Dist(j)
                         /\ \A j \in 1..(i - 1) : Dist(j) > Dist(i)
         IN  item_pool[best]

UnidimensionalModel_get_theta(m) == m.ability_level

UnidimensionalModel_set_theta(m, theta) == [m EXCEPT !.ability_level = theta]

\* a get_next_item that returns None without marking the skill
UnidimensionalModel_get_next_item_unmarked(m) ==
    [model |-> m, item |-> maximum_information_criterion(m.item_pool, m.ability_level)]

\* UnidimensionalModel.get_next_item
UnidimensionalModel_get_next_item(m) ==
    LET item == maximum_information_criterion(m.item_pool, m.ability_level)
    IN  IF item = None
        THEN [model |-> [m EXCEPT !.questions_left = FALSE], item |-> None]
        ELSE [model |-> m, item |-> item]

\* a record_response that sets mastery_reached to the outcome of the comparison
UnidimensionalModel_record_response_recomputing(m, response, item) ==
    LET appended == [m EXCEPT !.response_pattern = Append(@, response),
                              !.answered_items = Append(@, item)]
    IN  IF item \notin Range(m.item_pool)
        THEN [err |-> "ValueError", model |-> appended]
        ELSE LET e == estimate_ability_level(appended.response_pattern,
                                             appended.answered_items)
                 estimated == [appended EXCEPT
                                  !.item_pool = delete_item(@, item),
                                  !.ability_level = e.est,
                                  !.standard_error = e.se]
             IN  [err |-> "ok",
                  model |-> [estimated EXCEPT !.mastery_reached =
                      UnidimensionalModel_get_theta(estimated)
                          > estimated.mastery_threshold]]

\* UnidimensionalModel.record_response.  delete_item raises ValueError for an
\* item the pool does not hold, after the two appends have been made.
UnidimensionalModel_record_response(m, response, item) ==
    LET appended == [m EXCEPT !.response_pattern = Append(@, response),
                              !.answered_items = Append(@, item)]
    IN  IF item \notin Range(m.item_pool)
        THEN [err |-> "ValueError", model |-> appended]
        ELSE LET e == estimate_ability_level(appended.response_pattern,
                                             appended.answered_items)
                 estimated == [appended EXCEPT
                                  !.item_pool = delete_item(@, item),
                                  !.ability_level = e.est,
                                  !.standard_error = e.se]
             IN  [err |-> "ok",
                  model |-> [estimated EXCEPT !.mastery_reached =
                      @ \/ UnidimensionalModel_get_theta(estimated)
                               > estimated.mastery_threshold]]

(***************************************************************************)
(* MultidimensionalModel (src/models/multidimensional.py)                  *)
(***************************************************************************)
\* MultidimensionalModel.add_model: self.models[skill] = model
add_model(ms, skill, mastery_threshold, item_pool, initial_theta) ==
    Put(ms, skill, UnidimensionalModel(skill, mastery_threshold, item_pool, initial_theta))

\* MultidimensionalModel.record_response: self.models[skill].record_response
record_response(ms, skill, response, item) ==
    IF skill \notin Keys(ms)
    THEN [err |-> "KeyError", models |-> ms]
    ELSE LET r == UnidimensionalModel_record_response(Get(ms, skill, None), response, item)
         IN  [err |-> r.err, models |-> Put(ms, skill, r.model)]

\* the skills left in the order in which they were added
sorted_models_unsorted(ms) == [p \in DOMAIN ms |-> p]

\* sorted(self.models.items(), key=theta): the positions of the dict in
\* ascending order of theta; the sort is stable, so skills of equal theta keep
\* the order in which they were added
sorted_models(ms) ==
    LET Before(i, j) ==
            \/ ms[i].v.ability_level < ms[j].v.ability_level
            \/ ms[i].v.ability_level = ms[j].v.ability_level /\ i < j
        Place(i) == 1 + Cardinality({j \in DOMAIN ms : Before(j, i)})
    IN  [p \in DOMAIN ms |-> CHOOSE i \in DOMAIN ms : Place(i) = p]

\* the loop of MultidimensionalModel.get_next_item from position n of order
\* on, stopping at the first skill it asks
RECURSIVE scan_first(_, _, _)
scan_first(ms, order, n) ==
    IF n > Len(order) THEN [models |-> ms, item |-> None]
    ELSE LET e == ms[order[n]]
         IN  IF ~e.v.questions_left \/ e.v.mastery_reached
             THEN scan_first(ms, order, n + 1)
             ELSE LET r == UnidimensionalModel_get_next_item(e.v)
                  IN  [models |-> Put(ms, e.k, r.model), item |-> r.item]

\* the loop of MultidimensionalModel.get_next_item from position n of order on
RECURSIVE scan(_, _, _)
scan(ms, order, n) ==
    IF n > Len(order) THEN [models |-> ms, item |-> None]
    ELSE LET e == ms[order[n]]
         IN  IF ~e.v.questions_left \/ e.v.mastery_reached
             THEN scan(ms, order, n + 1)
             ELSE LET r == UnidimensionalModel_get_next_item(e.v)
                      asked == Put(ms, e.k, r.model)
                  IN  IF r.item # None
                      THEN [models |-> asked, item |-> r.item]
                      ELSE scan(asked, order, n + 1)

\* a get_next_item that gives up when the first skill it asks has no item
get_next_item_no_fall_through(ms) == scan_first(ms, sorted_models(ms), 1)

\* MultidimensionalModel.get_next_item
get_next_item(ms) == scan(ms, sorted_models(ms), 1)

\* adapter.choose_next_item: the item and the first skill, in dict order,
\* whose pool holds it
choose_next_item(ms) ==
    LET r == get_next_item(ms)
        Holds(i) == r.item \in Range(r.models[i].v.item_pool)
        holders == {i \in DOMAIN r.models : Holds(i)}
        first == CHOOSE i \in holders : \A j \in holders : i <= j
    IN  [models |-> r.models, item |-> r.item,
         skill |-> IF r.item = None \/ holders = {} THEN None ELSE r.models[first].k]

(***************************************************************************)
(* Core orchestration (src/service/core.py, src/engine/adapter.py) over    *)
(* the repository (src/db/repo.py)                                         *)
(***************************************************************************)
\* settings.default_mastery_threshold (mastery_thresholds is empty)
default_mastery_threshold == 1

\* settings.prior_mu
settings_prior_mu == 0

\* the Item rows of the quiz.  irtB stands for the triple (irtA, irtB, irtC);
\* the TestItem made from a row is known by the row's id.  t3 has the IRT
\* parameters of t1; t4 is inactive.
DbItems ==
    << [id |-> "t1", moduleId |-> "A", irtB |-> 0, active |-> TRUE,  correct_index |-> 0],
       [id |-> "t2", moduleId |-> "A", irtB |-> 2, active |-> TRUE,  correct_index |-> 1],
       [id |-> "t3", moduleId |-> "B", irtB |-> 0, active |-> TRUE,  correct_index |-> 0],
       [id |-> "t4", moduleId |-> "B", irtB |-> 1, active |-> FALSE, correct_index |-> 0] >>

DbItemIds == {DbItems[i].id : i \in DOMAIN DbItems}

\* repo.get_item_by_id on an id of the table
DbItem(id) == DbItems[CHOOSE i \in DOMAIN DbItems : DbItems[i].id = id]

\* repo.list_eligible_items_for_quiz: the active items of the quiz's scope
list_eligible_items_for_quiz ==
    LET Active(it) == it.active IN SelectSeq(DbItems, Active)

\* core._build_item_pools: concepts (sorted) and the pool of each concept
build_item_pools(items) ==
    LET Tagged(it) == it.active /\ it.moduleId # None
        kept == SelectSeq(items, Tagged)
        Used(c) == \E i \in DOMAIN kept : kept[i].moduleId = c
        PoolOf(c) == LET In(it) == it.moduleId = c
                         rows == SelectSeq(kept, In)
                     IN  [i \in DOMAIN rows |-> rows[i].id]
    IN  [concepts |-> SelectSeq(ConceptOrder, Used), pools |-> [c \in {kept[i].moduleId : i \in DOMAIN kept} |-> PoolOf(c)]]

\* adapter.build_multidim_model: add_model per concept, in the order given
build_multidim_model(concepts, pools_by_concept, mu, thr) ==
    LET Build[n \in 0..Len(concepts)] ==
            IF n = 0 THEN <<>>
            ELSE add_model(Build[n - 1], concepts[n], thr,
                           IF concepts[n] \in DOMAIN pools_by_concept
                           THEN pools_by_concept[concepts[n]] ELSE <<>>,
                           mu)
    IN  Build[Len(concepts)]

\* core._find_test_item_by_irt_params: the first TestItem, over the skills in
\* dict order and each pool in list order, whose parameters match; else None
find_test_item_by_irt_params(ms, irtB) ==
    LET Matches(k, i) == TestItem(ms[k].v.item_pool[i]).b = irtB
        Hits == {<<k, i>> \in (DOMAIN ms) \X (1..Len(TestItemBank)) :
                    i \in DOMAIN ms[k].v.item_pool /\ Matches(k, i)}
        first == CHOOSE h \in Hits :
                    \A g \in Hits : h[1] < g[1] \/ (h[1] = g[1] /\ h[2] <= g[2])
    IN  IF Hits = {} THEN None ELSE ms[first[1]].v.item_pool[first[2]]

\* step_attempt, "if prev_ti: model.models[skill].record_response(...)": the
\* response of db_item is applied when a TestItem with its parameters is
\* found, and skipped otherwise
apply_response(ms, db_item, is_correct) ==
    LET prev_ti == find_test_item_by_irt_params(ms, db_item.irtB)
    IN  IF prev_ti # None
        THEN record_response(ms, db_item.moduleId, IF is_correct THEN 1 ELSE 0, prev_ti)
        ELSE [err |-> "ok", models |-> ms]

\* what step_attempt did with the response it was called for: found (a
\* response or an answer was there to apply), in_pool (its item was in the
\* pool of its skill when it was applied), apply_err (what applying it raised)
Applied(found, in_pool, apply_err) ==
    [found |-> found, in_pool |-> in_pool, apply_err |-> apply_err]

\* prior_mu omitted (None) in a call of init_attempt
NoPrior == NoIndex

\* core.init_attempt for the one attempt of the model, up to the statement
\* that raises.  modules <<>> stands for None or an empty list.
\* effective_concepts is resolved at line 114 and prior_mu is
\* what line 125 passes on; repo has no get_thetas_for_enrollment, so line
\* 117 raises before the model is built.
init_attempt(attempt_id, modules, prior_mu) ==
    LET items == list_eligible_items_for_quiz
        all_concepts == build_item_pools(items).concepts
        effective_concepts == IF modules # <<>> THEN modules ELSE all_concepts
        Outcome(err, scope) ==
            [err |-> err, models |-> <<>>, applied |-> Applied(FALSE, FALSE, "ok"),
             effective_concepts |-> scope,
             prior_mu |-> IF prior_mu # NoPrior THEN prior_mu ELSE settings_prior_mu]
    IN  IF attempt_id # "a1" THEN Outcome("Unknown attempt_id", <<>>)
        ELSE IF items = <<>> THEN Outcome("ok", <<>>)
        ELSE Outcome("AttributeError", effective_concepts)

\* core.step_attempt for the one attempt of the model.  rows are the Response
\* rows of the attempt; response_id 0 names no row.  list_responses loads the
\* rows without their item relation, so replaying a previous response raises
\* on prev_response.item.moduleId; repo has no upsert_theta, so persisting the
\* thetas raises.
step_attempt(rows, attempt_id, response_id, item_id, answer_index) ==
    LET items == list_eligible_items_for_quiz
        built == build_item_pools(items)
        fresh == build_multidim_model(built.concepts, built.pools, settings_prior_mu,
                                      default_mastery_threshold)
        Outcome(err, ms, ap) == [err |-> err, models |-> ms, applied |-> ap]
        none == Applied(FALSE, FALSE, "ok")
        InPool(db_item) ==
            /\ db_item.moduleId \in Keys(fresh)
            /\ db_item.id \in Range(Get(fresh, db_item.moduleId, None).item_pool)
        After(db_item, is_correct) ==
            LET r == apply_response(fresh, db_item, is_correct)
                ap == Applied(TRUE, InPool(db_item), r.err)
            IN  IF r.err # "ok" THEN Outcome(r.err, r.models, ap)
                ELSE Outcome("AttributeError", r.models, ap)
    IN  IF attempt_id # "a1" THEN Outcome("Unknown attempt_id", <<>>, none)
        ELSE IF items = <<>> THEN Outcome("ok", <<>>, none)
        ELSE IF \E i \in DOMAIN rows : i # response_id
        THEN Outcome("AttributeError", fresh, none)
        ELSE IF response_id \in DOMAIN rows
        THEN After(DbItem(rows[response_id].itemId), rows[response_id].isCorrect)
        ELSE IF item_id # None /\ answer_index # NoIndex
        THEN IF item_id \notin DbItemIds
             THEN Outcome("Unknown item_id", fresh, none)
             ELSE IF ~(-NumOptions <= answer_index /\ answer_index < NumOptions)
             THEN Outcome("IndexError", fresh, none)
             ELSE After(DbItem(item_id),
                        (answer_index + NumOptions) % NumOptions
                            = DbItem(item_id).correct_index)
        ELSE Outcome("AttributeError", fresh, none)

\* step_attempt, "Compute current theta and naive mastery" (lines 262-264),
\* over the model as the responses left it
reported_theta(ms) ==
    [i \in DOMAIN ms |-> [k |-> ms[i].k, v |-> UnidimensionalModel_get_theta(ms[i].v)]]

reported_mastery(ms, thr) ==
    [i \in DOMAIN ms |-> [k |-> ms[i].k, v |-> (reported_theta(ms)[i].v >= thr)]]

\* step_attempt, "Pick next item" and "FINISH if no next item" (lines 270-274):
\* what a call that gets there returns
is_finished(ms) == choose_next_item(ms).item = None

(***************************************************************************)
(* The hardcoded core (src/service/core_hardcoded.py)                      *)
(***************************************************************************)
SAMPLE_ITEMS ==
    << [item_id |-> "item_001", skill |-> "algebra"],
       [item_id |-> "item_002", skill |-> "geometry"],
       [item_id |-> "item_003", skill |-> "algebra"],
       [item_id |-> "item_004", skill |-> "geometry"],
       [item_id |-> "item_005", skill |-> "algebra"] >>

\* {"current_index": 0, "answered_items": set()}
NewAttemptState == [current_index |-> 0, answered_items |-> {}]

\* "if attempt_id not in _attempt_states: _attempt_states[attempt_id] = ..."
ensure_attempt_state(states, attempt_id) ==
    IF attempt_id \in Keys(states) THEN states
    ELSE Put(states, attempt_id, NewAttemptState)

\* _get_next_item_for_attempt: the item at current_index, which moves on
get_next_item_for_attempt(states, attempt_id) ==
    LET ensured == ensure_attempt_state(states, attempt_id)
        state == Get(ensured, attempt_id, NewAttemptState)
    IN  IF state.current_index >= Len(SAMPLE_ITEMS)
        THEN [states |-> ensured, item |-> None]
        ELSE [states |-> Put(ensured, attempt_id,
                             [state EXCEPT !.current_index = @ + 1]),
              item |-> SAMPLE_ITEMS[state.current_index + 1].item_id]

\* _get_theta_for_attempt and _get_mastery_for_attempt return constants; what
\* they do to the state is to create it when it is missing
get_theta_for_attempt(states, attempt_id) == ensure_attempt_state(states, attempt_id)

\* _is_attempt_finished
is_attempt_finished(states, attempt_id) ==
    /\ attempt_id \in Keys(states)
    /\ Get(states, attempt_id, NewAttemptState).current_index >= Len(SAMPLE_ITEMS)

\* an init_attempt that keeps the state of an attempt it already knows
hardcoded_init_attempt_resuming(states, attempt_id) ==
    LET nxt == get_next_item_for_attempt(get_theta_for_attempt(states, attempt_id),
                                         attempt_id)
    IN  [states |-> nxt.states, item |-> nxt.item, is_finished |-> FALSE]

\* core_hardcoded.init_attempt: the state is reset, the first item returned
hardcoded_init_attempt(states, attempt_id) ==
    LET reset == Put(states, attempt_id, NewAttemptState)
        nxt   == get_next_item_for_attempt(get_theta_for_attempt(reset, attempt_id),
                                           attempt_id)
    IN  [states |-> nxt.states, item |-> nxt.item, is_finished |-> FALSE]

\* core_hardcoded.step_attempt.  item_id None stands for None or "".
hardcoded_step_attempt(states, attempt_id, item_id) ==
    LET recorded ==
            IF item_id # None /\ attempt_id \in Keys(states)
            THEN Put(states, attempt_id,
                     [Get(states, attempt_id, NewAttemptState)
                          EXCEPT !.answered_items = @ \cup {item_id}])
            ELSE states
        ensured  == get_theta_for_attempt(recorded, attempt_id)
        finished == is_attempt_finished(ensured, attempt_id)
        nxt      == get_next_item_for_attempt(ensured, attempt_id)
    IN  IF finished
        THEN [states |-> ensured, item |-> None, is_finished |-> TRUE]
        ELSE [states |-> nxt.states, item |-> nxt.item, is_finished |-> FALSE]

(***************************************************************************)
(* Inputs                                                                  *)
(***************************************************************************)
ScopeInputs     == {<<>>, <<"A">>, <<"C">>}     \* <<>>: concepts omitted
MaxItemsInputs  == 0..MaxItems                  \* 0: max_items omitted
PriorMuInputs   == {0, 1}                       \* 0 also stands for omitted
SessionIdInputs == {1, 2}                       \* 2 is never created under Spec
ItemIdInputs    == ItemIds \cup {"qx", None}    \* "qx" is not in the bank
AnswerInputs    == {-1, 0, 1, NumOptions, NoIndex}

\* add_model calls: skill, mastery_threshold, item_pool (initial_theta is 0)
AddModelInputs ==
    { <<"A", 0, <<"t1", "t2">> >>, <<"A", 1, <<"t1", "t2">> >>,
      <<"B", 1, <<"t3">> >>, <<"B", 1, <<>> >> }
SkillInputs     == {"A", "B"}
ResponseInputs  == {0, 1}                       \* 0 incorrect, 1 correct
TestItemInputs  == TestItemIds
SetThetaInputs  == {-1, 1}
AttemptInputs   == {"a1", "ax"}                 \* "ax" is no attempt
HardcodedAttemptInputs == {"a1", "a2"}
HardcodedItemInputs == {None, "item_001"}
ModulesInputs   == {<<>>, <<"A">>, <<"A", "B">>} \* <<>>: modules omitted
PriorInputs     == {NoPrior, 1}
ResponseIdInputs == 0..MaxDbResponses           \* 0 is no Response row
DbItemIdInputs  == DbItemIds \cup {"tx", None}  \* "tx" is no Item row

ThetaInBounds(state) ==
    \A i \in DOMAIN state.theta : state.theta[i].v \in (-ThetaBound)..ThetaBound

(***************************************************************************)
(* The record of the most recent call                                      *)
(***************************************************************************)
\* appended: the call added its item_id to asked
Call(op, sid, item_id, answer_index, err, appended, finished, item) ==
    [op |-> op, session_id |-> sid, item_id |-> item_id, answer_index |-> answer_index,
     err |-> err, appended |-> appended, finished |-> finished, next_item |-> item]

\* a call on the skill models: item is the TestItem passed (record_response)
\* or returned (get_next_item)
ModelCall(op, skill, item, err) ==
    [op |-> op, skill |-> skill, item |-> item, err |-> err]

\* a service of its own: its store, its generator, what it presented last
Service(st, r, pres) == [store |-> st, rng |-> r, presented |-> pres]

\* a step_attempt call and its outcome; models is the model the call built
CoreCall(op, response_id, item_id, answer_index, out) ==
    [op |-> op, response_id |-> response_id, item_id |-> item_id,
     answer_index |-> answer_index, err |-> out.err, applied |-> out.applied,
     models |-> out.models]

\* what init_attempt resolved for the attempt, once it was called
Attempt(inited, effective_concepts, prior_mu) ==
    [inited |-> inited, effective_concepts |-> effective_concepts, prior_mu |-> prior_mu]

NoAttempt == Attempt(FALSE, <<>>, settings_prior_mu)

\* a call of the hardcoded core: next_item and is_finished as returned
\* (init_attempt returns no is_finished)
HardcodedCall(op, attempt_id, item_id, out) ==
    [op |-> op, attempt_id |-> attempt_id, item_id |-> item_id,
     next_item |-> out.item, is_finished |-> out.is_finished]

NoHardcodedCall ==
    HardcodedCall("none", None, None, [item |-> None, is_finished |-> FALSE])

NoCoreCall ==
    CoreCall("none", 0, None, NoIndex,
             [err |-> "ok", applied |-> Applied(FALSE, FALSE, "ok"), models |-> <<>>])

(***************************************************************************)
(* Initial state and actions                                               *)
(***************************************************************************)
Init ==
    /\ store = <<>>
    /\ rng \in 0..(RngPeriod - 1)
    /\ presented = <<>>
    /\ last = Call("none", 0, None, NoIndex, "ok", FALSE, FALSE, None)
    /\ models = <<>>
    /\ mlast = ModelCall("none", None, None, "ok")
    /\ responses = <<>>
    /\ clast = NoCoreCall
    /\ twin = Service(<<>>, 0, <<>>)
    /\ threads = <<>>
    /\ attempt = NoAttempt
    /\ attempt_states = <<>>
    /\ returned = <<>>
    /\ hlast = NoHardcodedCall

\* POST /session/init (routers.init_session): create the session, prefetch an item
RouteInitSession(concepts, max_items, prior_mu) ==
    LET ini == init_session(concepts, max_items, prior_mu)
        nxt == next_item(ini.state, rng)
        sid == Len(store) + 1
    IN  IF ini.err # "ok"
        THEN /\ last' = Call("init", 0, None, NoIndex, ini.err, FALSE, FALSE, None)
             /\ UNCHANGED <<store, rng, presented, mvars, cvars, xvars>>
        ELSE /\ UNCHANGED <<mvars, cvars, xvars>>
             /\ store' = Append(store, nxt.state)
             /\ rng' = nxt.rng
             /\ presented' = Append(presented, nxt.item)
             /\ last' = Call("init", sid, None, NoIndex, "ok", FALSE, nxt.state.finished, nxt.item)

\* SessionService.next_item on a stored session
CallNextItem(sid) ==
    /\ sid \in DOMAIN store
    /\ UNCHANGED <<mvars, cvars, xvars>>
    /\ LET nxt == next_item(store[sid], rng)
       IN  /\ store' = [store EXCEPT ![sid] = nxt.state]
           /\ rng' = nxt.rng
           /\ presented' = [presented EXCEPT ![sid] = nxt.item]
           /\ last' = Call("next_item", sid, None, NoIndex, "ok", FALSE,
                           nxt.state.finished, nxt.item)

\* POST /session/step (routers.step -> SessionService.step)
RouteStep(sid, item_id, answer_index) ==
    LET res == step(store, sid, item_id, answer_index, rng)
    IN  /\ sid \in DOMAIN store => ThetaInBounds(res.store[sid])
        /\ UNCHANGED <<mvars, cvars, xvars>>
        /\ store' = res.store
        /\ rng' = res.rng
        /\ presented' = IF res.err = "ok"
                        THEN [presented EXCEPT ![sid] = res.next_item]
                        ELSE presented
        /\ last' = Call("step", sid, item_id, answer_index, res.err,
                        sid \in DOMAIN store
                            /\ Len(res.store[sid].asked) > Len(store[sid].asked),
                        IF sid \in DOMAIN store THEN res.store[sid].finished ELSE FALSE,
                        res.next_item)

\* POST /session/state (SessionService.state): a read
RouteState(sid) ==
    /\ last' = Call("state", sid, None, NoIndex,
                    IF sid \in DOMAIN store THEN "ok" ELSE "Invalid session_id", FALSE,
                    IF sid \in DOMAIN store THEN store[sid].finished ELSE FALSE, None)
    /\ UNCHANGED <<store, rng, presented, mvars, cvars, xvars>>

\* Spec follows one session through every call sequence.  Sessions share only
\* the generator, and Spec starts it in any state and lets next_item advance it
\* at will, so every draw another session could leave behind is covered.
Next ==
    \/ /\ store = <<>>
       /\ \E c \in ScopeInputs, m \in MaxItemsInputs, p \in PriorMuInputs :
              RouteInitSession(c, m, p)
    \/ \E sid \in SessionIdInputs : CallNextItem(sid)
    \/ \E sid \in SessionIdInputs, i \in ItemIdInputs, a \in AnswerInputs :
           RouteStep(sid, i, a)
    \/ \E sid \in SessionIdInputs : RouteState(sid)

Spec == Init /\ [][Next]_vars

(***************************************************************************)
(* The skill models driven by their callers                                *)
(***************************************************************************)
\* responses recorded so far over all skill models
TotalResponses(ms) ==
    LET Sum[n \in 0..Len(ms)] ==
            IF n = 0 THEN 0 ELSE Sum[n - 1] + Len(ms[n].v.response_pattern)
    IN  Sum[Len(ms)]

\* MultidimensionalModel(student_id, test_id): no skill model yet
InitModels ==
    /\ store = <<>>
    /\ rng = 0
    /\ presented = <<>>
    /\ last = Call("none", 0, None, NoIndex, "ok", FALSE, FALSE, None)
    /\ models = <<>>
    /\ mlast = ModelCall("none", None, None, "ok")
    /\ responses = <<>>
    /\ clast = NoCoreCall
    /\ twin = Service(<<>>, 0, <<>>)
    /\ threads = <<>>
    /\ attempt = NoAttempt
    /\ attempt_states = <<>>
    /\ returned = <<>>
    /\ hlast = NoHardcodedCall

\* multi_model.add_model(skill, mastery_threshold, item_pool)
CallAddModel(skill, mastery_threshold, item_pool) ==
    /\ models' = add_model(models, skill, mastery_threshold, item_pool, 0)
    /\ mlast' = ModelCall("add_model", skill, None, "ok")
    /\ UNCHANGED <<svars, cvars, xvars>>

\* multi_model.record_response(skill, response, item)
CallRecordResponse(skill, response, item) ==
    LET r == record_response(models, skill, response, item)
    IN  /\ TotalResponses(models) < MaxResponses
        /\ models' = r.models
        /\ mlast' = ModelCall("record_response", skill, item, r.err)
        /\ UNCHANGED <<svars, cvars, xvars>>

\* multi_model.models[skill].get_next_item()
CallGetNextItem(skill) ==
    /\ skill \in Keys(models)
    /\ LET r == UnidimensionalModel_get_next_item(Get(models, skill, None))
       IN  /\ models' = Put(models, skill, r.model)
           /\ mlast' = ModelCall("get_next_item", skill, r.item, "ok")
    /\ UNCHANGED <<svars, cvars, xvars>>

\* multi_model.models[skill].set_theta(theta)
CallSetTheta(skill, theta) ==
    /\ skill \in Keys(models)
    /\ models' = Put(models, skill,
                     UnidimensionalModel_set_theta(Get(models, skill, None), theta))
    /\ mlast' = ModelCall("set_theta", skill, None, "ok")
    /\ UNCHANGED <<svars, cvars, xvars>>

\* choose_next_item(multi_model): multi_model.get_next_item() and the skill
\* the item came from
CallChooseNextItem ==
    /\ LET r == choose_next_item(models)
       IN  /\ models' = r.models
           /\ mlast' = ModelCall("choose_next_item", r.skill, r.item, "ok")
    /\ UNCHANGED <<svars, cvars, xvars>>

\* the calls that address one skill's model
NextSkillModels ==
    \/ \E inp \in AddModelInputs : CallAddModel(inp[1], inp[2], inp[3])
    \/ \E skill \in SkillInputs, response \in ResponseInputs, item \in TestItemInputs :
           CallRecordResponse(skill, response, item)
    \/ \E skill \in SkillInputs : CallGetNextItem(skill)
    \/ \E skill \in SkillInputs, theta \in SetThetaInputs : CallSetTheta(skill, theta)

NextModels ==
    \/ NextSkillModels
    \/ CallChooseNextItem

SpecModels == InitModels /\ [][NextModels]_vars

(***************************************************************************)
(* The core driven by the backend that stores the responses                *)
(***************************************************************************)
\* the backend stores the Response row of an answer (repo.create_response)
CreateResponse(item_id, is_correct) ==
    /\ Len(responses) < MaxDbResponses
    /\ responses' = Append(responses, [itemId |-> item_id, isCorrect |-> is_correct])
    /\ clast' = NoCoreCall
    /\ UNCHANGED <<svars, mvars, xvars>>

\* POST init of an attempt: core.init_attempt
InitAttempt(attempt_id, modules, prior_mu) ==
    LET out == init_attempt(attempt_id, modules, prior_mu)
    IN  /\ ~attempt.inited /\ responses = <<>>
        /\ clast' = CoreCall("init_attempt", 0, None, NoIndex, out)
        /\ attempt' = IF out.err = "Unknown attempt_id" THEN attempt
                      ELSE Attempt(TRUE, out.effective_concepts, out.prior_mu)
        /\ UNCHANGED <<responses, svars, mvars, twin, threads, hvars>>

\* POST step of an attempt: core.step_attempt
StepAttempt(attempt_id, response_id, item_id, answer_index) ==
    /\ clast' = CoreCall("step_attempt", response_id, item_id, answer_index,
                         step_attempt(responses, attempt_id, response_id,
                                      item_id, answer_index))
    /\ UNCHANGED <<responses, svars, mvars, xvars>>

NextCore ==
    \/ \E a \in AttemptInputs, m \in ModulesInputs, p \in PriorInputs : InitAttempt(a, m, p)
    \/ \E i \in DbItemIds, c \in BOOLEAN : CreateResponse(i, c)
    \/ \E a \in AttemptInputs, r \in ResponseIdInputs, i \in DbItemIdInputs,
          x \in AnswerInputs : StepAttempt(a, r, i, x)

SpecCore == InitModels /\ [][NextCore]_vars

(***************************************************************************)
(* The skill models and the core that builds them, one driven at a time    *)
(***************************************************************************)
CoreUntouched == responses = <<>> /\ clast = NoCoreCall

NextEngine ==
    \/ CoreUntouched /\ NextModels
    \/ models = <<>> /\ mlast.op = "none" /\ NextCore

SpecEngine == InitModels /\ [][NextEngine]_vars

(***************************************************************************)
(* Two sessions of one service.  Session 1 is opened first and driven as   *)
(* under Spec.  Every request of session 2 is also made to the twin, a     *)
(* service started from the same seed that never hears of session 1; there *)
(* session 2 is the only session and has id 1.                             *)
(***************************************************************************)
\* POST /session/init for the second session, made to both services
BothInitSession(concepts, max_items, prior_mu) ==
    LET ini  == init_session(concepts, max_items, prior_mu)
        nxt  == next_item(ini.state, rng)
        tnxt == next_item(ini.state, twin.rng)
    IN  /\ Len(store) = 1 /\ twin.store = <<>>
        /\ ini.err = "ok"
        /\ store' = Append(store, nxt.state)
        /\ rng' = nxt.rng
        /\ presented' = Append(presented, nxt.item)
        /\ last' = Call("init", 2, None, NoIndex, "ok", FALSE, nxt.state.finished, nxt.item)
        /\ twin' = Service(<<tnxt.state>>, tnxt.rng, <<tnxt.item>>)
        /\ UNCHANGED <<mvars, cvars, threads, attempt, hvars>>

\* POST /session/step for the second session, made to both services
BothStep(item_id, answer_index) ==
    LET res  == step(store, 2, item_id, answer_index, rng)
        tres == step(twin.store, 1, item_id, answer_index, twin.rng)
    IN  /\ Len(store) = 2
        /\ ThetaInBounds(res.store[2]) /\ ThetaInBounds(tres.store[1])
        /\ store' = res.store
        /\ rng' = res.rng
        /\ presented' = IF res.err = "ok"
                        THEN [presented EXCEPT ![2] = res.next_item]
                        ELSE presented
        /\ last' = Call("step", 2, item_id, answer_index, res.err,
                        Len(res.store[2].asked) > Len(store[2].asked),
                        res.store[2].finished, res.next_item)
        /\ twin' = Service(tres.store, tres.rng,
                           IF tres.err = "ok" THEN <<tres.next_item>> ELSE twin.presented)
        /\ UNCHANGED <<mvars, cvars, threads, attempt, hvars>>

\* SessionService.next_item on the second session, in both services
BothNextItem ==
    /\ Len(store) = 2
    /\ LET nxt  == next_item(store[2], rng)
           tnxt == next_item(twin.store[1], twin.rng)
       IN  /\ store' = [store EXCEPT ![2] = nxt.state]
           /\ rng' = nxt.rng
           /\ presented' = [presented EXCEPT ![2] = nxt.item]
           /\ last' = Call("next_item", 2, None, NoIndex, "ok", FALSE,
                           nxt.state.finished, nxt.item)
           /\ twin' = Service(<<tnxt.state>>, tnxt.rng, <<tnxt.item>>)
    /\ UNCHANGED <<mvars, cvars, threads, attempt, hvars>>

NextTwo ==
    \/ store = <<>> /\ RouteInitSession(<<>>, MaxItems, 0)
    \/ store # <<>> /\ CallNextItem(1)
    \/ store # <<>> /\ \E i \in ItemIds : RouteStep(1, i, 0)
    \/ BothInitSession(<<>>, MaxItems, 0)
    \/ \E i \in ItemIds \cup {None}, a \in {0, NoIndex} : BothStep(i, a)
    \/ BothNextItem

SpecTwo == InitModels /\ [][NextTwo]_vars

(***************************************************************************)
(* Overlapping step requests.  routers.step is a plain def, so the server  *)
(* runs each request on a worker thread; SessionService.step takes no      *)
(* lock, and the threads interleave between its statements.  A request in  *)
(* flight is a record: its arguments, its position in step, the theta it   *)
(* computed and has not assigned yet, and (base) the session as it was     *)
(* when the request arrived.                                               *)
(***************************************************************************)
Thread(item_id, answer_index, pc, theta, base) ==
    [item_id |-> item_id, answer_index |-> answer_index, pc |-> pc,
     theta |-> theta, base |-> base]

At(t, pc) == t \in DOMAIN threads /\ threads[t].pc = pc

Goto(t, pc) == [threads EXCEPT ![t].pc = pc]

\* a POST /session/step for session 1 is handed to a worker thread
StepArrives(item_id, answer_index) ==
    /\ store # <<>> /\ Len(threads) < 2
    /\ threads' = Append(threads, Thread(item_id, answer_index, "validate", <<>>, store[1]))
    /\ UNCHANGED <<svars, mvars, cvars, twin, attempt, hvars>>

\* lines 83-94, up to the call of update_theta: the thread reads state.theta
ThreadValidate(t) ==
    /\ At(t, "validate")
    /\ LET th == threads[t]
           is_correct == (th.answer_index = Item(th.item_id).correct_index)
       IN  threads' =
             IF th.item_id = None \/ th.answer_index = NoIndex
             THEN Goto(t, "stop_rule")
             ELSE IF get_item(th.item_id) = None
                     \/ ~(0 <= th.answer_index /\ th.answer_index < NumOptions)
             THEN Goto(t, "done")
             ELSE [threads EXCEPT ![t].pc = "assign_theta",
                      ![t].theta = update_theta(store[1].theta, th.item_id, is_correct)]
    /\ UNCHANGED <<svars, mvars, cvars, twin, attempt, hvars>>

\* line 94, the assignment: state.theta = <the dict update_theta returned>
ThreadAssignTheta(t) ==
    /\ At(t, "assign_theta")
    /\ store' = [store EXCEPT ![1].theta = threads[t].theta]
    /\ threads' = Goto(t, "check_asked")
    /\ UNCHANGED <<rng, presented, last, mvars, cvars, twin, attempt, hvars>>

\* line 95: if item_id not in state.asked
ThreadCheckAsked(t) ==
    /\ At(t, "check_asked")
    /\ threads' = IF threads[t].item_id \in Range(store[1].asked)
                  THEN Goto(t, "stop_rule")
                  ELSE Goto(t, "append")
    /\ UNCHANGED <<svars, mvars, cvars, twin, attempt, hvars>>

\* line 96: state.asked.append(item_id)
ThreadAppend(t) ==
    /\ At(t, "append")
    /\ store' = [store EXCEPT ![1].asked = Append(@, threads[t].item_id)]
    /\ threads' = Goto(t, "stop_rule")
    /\ UNCHANGED <<rng, presented, last, mvars, cvars, twin, attempt, hvars>>

\* lines 98-114: the stop rule, the selection of the next item, the result
ThreadAdvance(t) ==
    /\ At(t, "stop_rule")
    /\ LET adv == advance(store[1], rng)
       IN  /\ store' = [store EXCEPT ![1] = adv.state]
           /\ rng' = adv.rng
           /\ presented' = [presented EXCEPT ![1] = adv.item]
           /\ last' = Call("step", 1, threads[t].item_id, threads[t].answer_index, "ok",
                           FALSE, adv.state.finished, adv.item)
    /\ threads' = Goto(t, "done")
    /\ UNCHANGED <<mvars, cvars, twin, attempt, hvars>>

NextThreads ==
    \/ store = <<>> /\ \E m \in 1..MaxItems : RouteInitSession(<<>>, m, 0)
    \/ \E i \in ItemIdInputs, a \in {0, 1, NumOptions, NoIndex} : StepArrives(i, a)
    \/ \E t \in DOMAIN threads :
          \/ ThreadValidate(t)
          \/ ThreadAssignTheta(t)
          \/ ThreadCheckAsked(t)
          \/ ThreadAppend(t)
          \/ ThreadAdvance(t)

SpecThreads == InitModels /\ [][NextThreads]_vars

(***************************************************************************)
(* One client that follows the protocol: it opens a session and then keeps *)
(* calling step, answering the item it was presented when there is one.    *)
(* The client never stops calling, hence the fairness condition.           *)
(***************************************************************************)
\* the client answers the item it was presented last
ClientAnswers(answer_index) ==
    /\ store # <<>> /\ presented[1] # None
    /\ RouteStep(1, presented[1], answer_index)

\* the client has no item to answer and calls step to fetch one
ClientFetches ==
    /\ store # <<>> /\ presented[1] = None
    /\ RouteStep(1, None, NoIndex)

NextClient ==
    \/ /\ store = <<>>
       /\ \E c \in ScopeInputs, m \in 1..MaxItems, p \in PriorMuInputs :
              RouteInitSession(c, m, p)
    \/ \E a \in 0..(NumOptions - 1) : ClientAnswers(a)
    \/ ClientFetches

SpecClient == Init /\ [][NextClient]_vars /\ WF_vars(NextClient)

(***************************************************************************)
(* Overlapping step_attempt calls.  step_attempt is a coroutine: at each    *)
(* await the event loop may run the other call, or the backend may store    *)
(* another response.  A call in flight is a record: the response it is for, *)
(* its position, the rows list_responses gave it, and (wrote) its place in  *)
(* the order in which the calls came to persist their thetas, 0 before.     *)
(***************************************************************************)
Task(response_id, pc, rows, wrote) ==
    [response_id |-> response_id, pc |-> pc, rows |-> rows, wrote |-> wrote]

\* what the call of task t computes from the rows it was given
TaskOutcome(t) ==
    step_attempt(threads[t].rows, "a1", threads[t].response_id, None, NoIndex)

\* step_attempt(attempt_id, response_id) is called for a stored response;
\* lines 178-197 read the attempt and the items, which no call changes
StepAttemptArrives(response_id) ==
    /\ response_id \in DOMAIN responses /\ Len(threads) < 2
    /\ \A t \in DOMAIN threads : threads[t].response_id # response_id
    /\ threads' = Append(threads, Task(response_id, "list_responses", <<>>, 0))
    /\ UNCHANGED <<svars, mvars, cvars, twin, attempt, hvars>>

\* line 200, await repo.list_responses, and the replay loop, which has no
\* await: it raises at the first row that is not the call's own
TaskListsResponses(t) ==
    /\ At(t, "list_responses")
    /\ threads' = [threads EXCEPT ![t].rows = responses,
                                  ![t].pc = IF \E i \in DOMAIN responses :
                                                   i # threads[t].response_id
                                            THEN "done" ELSE "get_response_by_id"]
    /\ UNCHANGED <<svars, mvars, cvars, twin, attempt, hvars>>

\* line 219, await repo.get_response_by_id, and the response applied
TaskAppliesResponse(t) ==
    /\ At(t, "get_response_by_id")
    /\ threads' = Goto(t, IF TaskOutcome(t).applied.apply_err # "ok"
                          THEN "done" ELSE "upsert_theta")
    /\ UNCHANGED <<svars, mvars, cvars, twin, attempt, hvars>>

\* line 268, await repo.upsert_theta: the call comes to persist its thetas,
\* and raises, repo having no upsert_theta
TaskPersists(t) ==
    /\ At(t, "upsert_theta")
    /\ threads' = [threads EXCEPT
           ![t].wrote = 1 + Cardinality({u \in DOMAIN threads : threads[u].wrote > 0}),
           ![t].pc = "done"]
    /\ clast' = CoreCall("step_attempt", threads[t].response_id, None, NoIndex,
                         TaskOutcome(t))
    /\ UNCHANGED <<responses, svars, mvars, twin, attempt, hvars>>

NextTasks ==
    \/ \E i \in {"t1", "t2", "t3"}, c \in BOOLEAN :
           /\ \A n \in DOMAIN responses : responses[n].itemId # i
           /\ CreateResponse(i, c)
    \/ \E r \in 1..MaxDbResponses : StepAttemptArrives(r)
    \/ \E t \in DOMAIN threads :
          \/ TaskListsResponses(t)
          \/ TaskAppliesResponse(t)
          \/ TaskPersists(t)

SpecTasks == InitModels /\ [][NextTasks]_vars

(***************************************************************************)
(* The hardcoded core driven by its callers.  Its functions are coroutines *)
(* without an await, so calls do not interleave.                           *)
(***************************************************************************)
HardcodedInitAttempt(attempt_id) ==
    LET out == hardcoded_init_attempt(attempt_states, attempt_id)
    IN  /\ attempt_states' = out.states
        /\ returned' = Put(returned, attempt_id,
                           IF out.item # None THEN <<out.item>> ELSE <<>>)
        /\ hlast' = HardcodedCall("init_attempt", attempt_id, None, out)
        /\ UNCHANGED <<svars, mvars, cvars, twin, threads, attempt>>

HardcodedStepAttempt(attempt_id, item_id) ==
    LET out == hardcoded_step_attempt(attempt_states, attempt_id, item_id)
    IN  /\ attempt_states' = out.states
        /\ returned' = IF out.item # None
                       THEN Put(returned, attempt_id,
                                Append(Get(returned, attempt_id, <<>>), out.item))
                       ELSE returned
        /\ hlast' = HardcodedCall("step_attempt", attempt_id, item_id, out)
        /\ UNCHANGED <<svars, mvars, cvars, twin, threads, attempt>>

NextHardcoded ==
    \/ \E a \in HardcodedAttemptInputs : HardcodedInitAttempt(a)
    \/ \E a \in HardcodedAttemptInputs, i \in HardcodedItemInputs :
           HardcodedStepAttempt(a, i)

SpecHardcoded == InitModels /\ [][NextHardcoded]_vars

(***************************************************************************)
(* Both layers.  They share no variable, so a behaviour that drives one    *)
(* layer and leaves the other in its initial state shows everything an     *)
(* interleaving of the two could show.                                     *)
(***************************************************************************)
\* the generator belongs to the session layer: the skill models never draw
SessionsUntouched == store = <<>> /\ last.op = "none" /\ rng = 0

ModelsUntouched == models = <<>> /\ mlast.op = "none"

NextLayers ==
    \/ ModelsUntouched /\ Next
    \/ SessionsUntouched /\ NextSkillModels

SpecLayers == InitModels /\ [][NextLayers]_vars

(***************************************************************************)
(* Properties of the session state machine                                 *)
(***************************************************************************)
\* what a session shows of itself: theta, asked, finished
View(state) == <<state.theta, state.asked, state.finished>>

\* no item of the session's scope is left to present
NoItemLeft(state) ==
    \A id \in Range(items_by_concepts(state.concepts)) : id \in Range(state.asked)

\* the call just made (primed) is a step on the stored session sid
StepOn(sid) == last'.op = "step" /\ last'.session_id = sid /\ sid \in DOMAIN store

\* ... and it carries an answer
AnswerOn(sid) == StepOn(sid) /\ last'.item_id # None /\ last'.answer_index # NoIndex

\* C1: in every reachable state every session has len(asked) <= max_items.
C1_AskedWithinMaxItems ==
    \A sid \in DOMAIN store : Len(store[sid].asked) <= store[sid].max_items

\* C2: after a step returns, finished is true iff len(asked) >= max_items or
\* no item of the scope remains to be presented.
C2_FinishedIffCapOrExhausted ==
    (last.op = "step" /\ last.err = "ok") =>
        LET s == store[last.session_id]
        IN  s.finished <=> (Len(s.asked) >= s.max_items \/ NoItemLeft(s))

\* C3: a step on a session that is already finished fails with an error and
\* leaves the session's theta, asked and finished unchanged.
C3_StepAfterFinishedRejected ==
    [][\A sid \in DOMAIN store :
          (store[sid].finished /\ StepOn(sid)) =>
              (last'.err # "ok" /\ View(store'[sid]) = View(store[sid]))]_vars

\* C4: a step with an answer is accepted only for the pending item, the one
\* most recently presented to the session; an answer for any other item fails
\* and leaves the session unchanged.
C4_OnlyPendingItemAccepted ==
    [][\A sid \in DOMAIN store :
          (AnswerOn(sid) /\ last'.item_id # presented[sid]) =>
              (last'.err # "ok" /\ store'[sid] = store[sid])]_vars

\* C5: an answer for an item already in asked is rejected and changes neither
\* theta nor asked (stated for sessions still running, where no other rule
\* of the specification would reject the call).
C5_DuplicateAnswerRejected ==
    [][\A sid \in DOMAIN store :
          (/\ AnswerOn(sid) /\ ~store[sid].finished
           /\ last'.item_id \in Range(store[sid].asked)) =>
              (/\ last'.err # "ok"
               /\ store'[sid].theta = store[sid].theta
               /\ store'[sid].asked = store[sid].asked)]_vars

\* C6: a step that returns finished = false (CONTINUE) returns a next item;
\* next_item is null only together with finished = true (FINISH).
C6_ContinueHasNextItem ==
    (last.op = "step" /\ last.err = "ok") =>
        (next_action(last.finished) = "CONTINUE" <=> last.next_item # None)

\* the step just returned is the one whose answer brought len(asked) to max_items
ReachedMaxItems ==
    /\ last.op = "step" /\ last.err = "ok" /\ last.appended
    /\ Len(store[last.session_id].asked) = store[last.session_id].max_items

\* C7: the step whose answer brings len(asked) to max_items returns
\* finished = true and next_item = null, for every max_items >= 1.
C7_CapReachedFinishes ==
    ReachedMaxItems =>
        (/\ last.finished /\ last.next_item = None
         /\ store[last.session_id].finished)

\* C7 happens with max_items > 1: a second answer closes the session
C7_Witness ==
    /\ ReachedMaxItems
    /\ store[last.session_id].max_items > 1
    /\ last.finished /\ last.next_item = None

\* C8: when init has no item to present, the session is finished right after
\* init, before any step.
C8_EmptyScopeFinishedAtInit ==
    (last.op = "init" /\ last.err = "ok" /\ last.next_item = None) =>
        store[last.session_id].finished

\* C9: a step that raises (unknown session, unknown item, answer_index out of
\* range) leaves every stored session as it was.
C9_FailedStepChangesNothing ==
    [][(last'.op = "step" /\ last'.err # "ok") => store' = store]_vars

\* C9 happens: a step on a session with answers fails on its answer_index
C9_Witness ==
    /\ last.op = "step" /\ last.err = "answer_index is out of range"
    /\ last.session_id \in DOMAIN store
    /\ store[last.session_id].asked # <<>>

\* C10: the same step made twice in a row leaves theta, asked and finished as
\* the first call left them (stated for a session the first call left running).
C10_RetryIsIdempotent ==
    [][\A sid \in DOMAIN store :
          (/\ last.op = "step" /\ last.err = "ok" /\ last.session_id = sid
           /\ StepOn(sid) /\ ~store[sid].finished
           /\ last'.item_id = last.item_id
           /\ last'.answer_index = last.answer_index) =>
              View(store'[sid]) = View(store[sid])]_vars

\* the call just made (primed) is a step or a state read with an id that no
\* init_session has returned
UnknownSessionCall ==
    last'.op \in {"step", "state"} /\ last'.session_id \notin DOMAIN store

\* C11: step and state called with a session id that was never created fail
\* with an error, create no session and change no existing session.
C11_UnknownSessionRejected ==
    [][UnknownSessionCall => (last'.err # "ok" /\ store' = store)]_vars

\* C11 happens: a step names an unknown id while a session with answers exists
C11_Witness ==
    /\ last.op = "step" /\ last.session_id \notin DOMAIN store
    /\ last.err = "Invalid session_id"
    /\ store # <<>> /\ store[1].asked # <<>>

(***************************************************************************)
(* Properties of the skill models                                          *)
(***************************************************************************)
\* the skill model the most recent model call addressed
Addressed == Get(models, mlast.skill, None)

\* the session layer returned an item to the client
SessionPresents ==
    /\ last.op \in {"init", "next_item", "step"} /\ last.err = "ok"
    /\ last.next_item # None

\* a skill model returned an item
ModelPresents == mlast.op = "get_next_item" /\ mlast.item # None

\* C12: an item that has been answered is never presented again: the item
\* returned by SessionService.next_item / step is never in asked, and an item
\* passed to UnidimensionalModel.record_response is never returned by a later
\* get_next_item of that model.
C12_AnsweredNeverPresentedAgain ==
    /\ SessionPresents => last.next_item \notin Range(store[last.session_id].asked)
    /\ ModelPresents => mlast.item \notin Range(Addressed.answered_items)

\* C12 happens: a step presents an item to a session that has answered one
C12_Witness ==
    /\ SessionPresents /\ last.op = "step"
    /\ store[last.session_id].asked # <<>>

\* the call just made (primed) is one of the three calls on a skill model
ModelMethodCalled == mlast'.op \in {"record_response", "get_next_item", "set_theta"}

\* C13: mastery_reached of a UnidimensionalModel never changes from true to
\* false across record_response, get_next_item and set_theta calls.
C13_MasteryNeverReverts ==
    [][\A skill \in Keys(models) :
          (ModelMethodCalled /\ Get(models, skill, None).mastery_reached) =>
              Get(models', skill, None).mastery_reached]_vars

\* C13 happens: a response recorded after mastery leaves theta at or below
\* the threshold and the flag still set
C13_Witness ==
    /\ mlast.op = "record_response" /\ mlast.err = "ok"
    /\ Addressed.mastery_reached
    /\ Addressed.ability_level <= Addressed.mastery_threshold

\* the call just made (primed) is a record_response that returned normally
RecordedOk == mlast'.op = "record_response" /\ mlast'.err = "ok"

\* C14: after each successful record_response, mastery_reached is true exactly
\* when it was true before the call or the new theta is greater than or equal
\* to mastery_threshold; a theta equal to the threshold counts as mastery.
C14_MasteryAtThreshold ==
    [][RecordedOk =>
          LET before == Get(models, mlast'.skill, None)
              after  == Get(models', mlast'.skill, None)
          IN  after.mastery_reached <=>
                  (before.mastery_reached \/ after.ability_level >= after.mastery_threshold)]_vars

\* C15: UnidimensionalModel.get_next_item returns None whenever
\* mastery_reached is true or the pool is exhausted; once mastery has flipped,
\* every later get_next_item returns None even if items remain in the pool.
C15_NoItemAfterMastery ==
    (mlast.op = "get_next_item"
        /\ (Addressed.mastery_reached \/ Addressed.item_pool = <<>>)) =>
            mlast.item = None

\* C16: immediately after the record_response that removes the last item of
\* the pool, the skill is exhausted (questions_left is false), without any
\* get_next_item call in between.
C16_ExhaustedOnLastRemoval ==
    (mlast.op = "record_response" /\ mlast.err = "ok"
        /\ Addressed.item_pool = <<>>) =>
            ~Addressed.questions_left

\* C17: after every item of a skill's pool has been removed by
\* record_response, the next get_next_item on that skill returns None and
\* marks the skill exhausted (questions_left = false), and the skill stays
\* exhausted on all later calls.
C17_ExhaustedAfterEmptyPool ==
    [][/\ (mlast'.op = "get_next_item"
              /\ Get(models, mlast'.skill, None).item_pool = <<>>) =>
                  (/\ mlast'.item = None
                   /\ ~Get(models', mlast'.skill, None).questions_left)
       /\ \A skill \in Keys(models) :
              (ModelMethodCalled /\ ~Get(models, skill, None).questions_left) =>
                  ~Get(models', skill, None).questions_left]_vars

\* C17 happens: get_next_item on a pool emptied by record_response
C17_Witness ==
    /\ mlast.op = "get_next_item" /\ mlast.item = None
    /\ Addressed.item_pool = <<>> /\ Len(Addressed.answered_items) = 2
    /\ ~Addressed.questions_left

\* C18: UnidimensionalModel.record_response is atomic: when the call fails
\* because the item is not in the skill's pool, the response history, the
\* answered-items list, the pool, theta, the standard error and
\* mastery_reached are all exactly as before the call.
C18_FailedRecordChangesNothing ==
    [][(mlast'.op = "record_response" /\ mlast'.err = "ValueError") =>
          Get(models', mlast'.skill, None) = Get(models, mlast'.skill, None)]_vars

\* C20: MultidimensionalModel.add_model called with a skill name that is
\* already present fails with an error and leaves the existing skill model
\* (its theta, history, pool and mastery flag) unchanged.  Stated for an
\* existing skill model that has recorded a response.
C20_DuplicateSkillRejected ==
    [][(/\ mlast'.op = "add_model" /\ mlast'.skill \in Keys(models)
        /\ Get(models, mlast'.skill, None).response_pattern # <<>>) =>
          (/\ mlast'.err # "ok"
           /\ Get(models', mlast'.skill, None) = Get(models, mlast'.skill, None))]_vars

(***************************************************************************)
(* Properties of the core orchestration                                    *)
(***************************************************************************)
\* the call just made (primed) records a response for an item that the pool
\* of the addressed skill does not hold
RecordsUnknownItem ==
    /\ mlast'.op = "record_response" /\ mlast'.skill \in Keys(models)
    /\ mlast'.item \notin Range(Get(models, mlast'.skill, None).item_pool)

\* the call just made (primed) is a step_attempt whose response is for an item
\* that the pool of its skill does not hold
StepsUnknownItem ==
    /\ clast'.op = "step_attempt"
    /\ clast'.applied.found /\ ~clast'.applied.in_pool

\* C19: applying a response for an item that is not in the addressed skill's
\* pool fails with an error rather than being silently ignored, both in
\* record_response and for the response applied by step_attempt.
C19_UnknownItemRejected ==
    [][/\ RecordsUnknownItem => mlast'.err # "ok"
       /\ StepsUnknownItem => clast'.applied.apply_err # "ok"]_vars

(***************************************************************************)
(* Properties of the selection over the skills                             *)
(***************************************************************************)
\* choose_next_item has just returned an item (it changes no theta, pool or
\* mastery flag, so these are as they were when it was called)
ChoseItem == mlast.op = "choose_next_item" /\ mlast.item # None

\* the skill at position i is neither mastered nor out of items
Eligible(i) == ~models[i].v.mastery_reached /\ models[i].v.item_pool # <<>>

\* C21: MultidimensionalModel.get_next_item returns an item from the pool of
\* the skill with the lowest current theta among the skills that are neither
\* mastered nor exhausted; a mastered or exhausted skill is never drawn from,
\* however low its theta.
C21_LowestThetaSkillChosen ==
    ChoseItem =>
        \E i \in DOMAIN models :
            /\ models[i].k = mlast.skill
            /\ mlast.item \in Range(models[i].v.item_pool)
            /\ Eligible(i) /\ models[i].v.questions_left
            /\ \A j \in DOMAIN models :
                   Eligible(j) => models[i].v.ability_level <= models[j].v.ability_level

\* C21 happens: the item comes from the skill added second, the lower of two
\* eligible skills
C21_Witness ==
    /\ ChoseItem /\ Len(models) = 2
    /\ models[2].k = mlast.skill
    /\ Eligible(1) /\ models[2].v.ability_level < models[1].v.ability_level

\* the place of a skill name in ascending order of names
NameRank(c) == CHOOSE n \in DOMAIN ConceptOrder : ConceptOrder[n] = c

\* C22: when two or more eligible skills have the same lowest theta,
\* MultidimensionalModel.get_next_item draws from the one whose skill name is
\* smallest in ascending order, whatever the order in which the skills were
\* added.
C22_TieBrokenBySkillName ==
    ChoseItem =>
        \A i, j \in DOMAIN models :
            (/\ models[i].k = mlast.skill /\ Eligible(j)
             /\ models[j].v.ability_level = models[i].v.ability_level) =>
                NameRank(models[i].k) <= NameRank(models[j].k)

\* C23: if the lowest-theta eligible skill yields no item, get_next_item falls
\* through to the next-lowest-theta eligible skill; it returns None
\* (choose_next_item returns (None, None)) only when no unmastered skill has an
\* item left.
C23_FallThroughToNextSkill ==
    mlast.op = "choose_next_item" =>
        /\ mlast.item = None <=> (\A i \in DOMAIN models : ~Eligible(i))
        /\ mlast.item = None => mlast.skill = None

\* C23 happens: an unmastered skill of lower theta has an empty pool and the
\* item comes from the next skill
C23_Witness ==
    /\ ChoseItem
    /\ \E i, j \in DOMAIN models :
           /\ models[i].k = mlast.skill
           /\ ~models[j].v.mastery_reached /\ models[j].v.item_pool = <<>>
           /\ models[j].v.ability_level < models[i].v.ability_level

\* the call just made selected an item for session sid
SelectedFor(sid) ==
    /\ last.op \in {"init", "step", "next_item"} /\ last.session_id = sid
    /\ last.err = "ok" /\ last.next_item # None

\* C27: selection is deterministic: for the same theta, candidates and asked
\* set select_next returns the same item on every call, whatever calls were
\* made before: two selections in a row for a session whose theta and asked
\* did not change in between give the same item.
C27_SelectionDeterministic ==
    [][\A sid \in DOMAIN store :
          (SelectedFor(sid) /\ SelectedFor(sid)' /\ View(store[sid])' = View(store[sid]))
              => last'.next_item = last.next_item]_vars

\* C28: FINISHED is terminal: once a session's finished is true it stays true
\* in every later state, under any sequence of step, next_item and state
\* calls.
C28_FinishedIsTerminal ==
    [][\A sid \in DOMAIN store : store[sid].finished => store'[sid].finished]_vars

\* a step with an answer was accepted on a session that had already reached
\* max_items, hence was finished, and the session is still finished
C28_Witness ==
    /\ last.op = "step" /\ last.err = "ok" /\ last.appended
    /\ last.session_id \in DOMAIN store
    /\ Len(store[last.session_id].asked) > store[last.session_id].max_items
    /\ store[last.session_id].finished

\* the call just made (primed) is a step on sid without an answer: item_id or
\* answer_index is omitted
NoAnswerOn(sid) == StepOn(sid) /\ (last'.item_id = None \/ last'.answer_index = NoIndex)

\* C29: a step without an answer (item_id or answer_index omitted) succeeds,
\* leaves theta and asked of the session unchanged and only fetches the next
\* item.
C29_StepWithoutAnswerOnlyFetches ==
    [][\A sid \in DOMAIN store :
          NoAnswerOn(sid) =>
              /\ last'.err = "ok"
              /\ store'[sid].theta = store[sid].theta
              /\ store'[sid].asked = store[sid].asked
              /\ last'.next_item = presented'[sid]]_vars

\* a step that named an item but no answer_index was served the next item
\* of a session that has an answered item
C29_Witness ==
    /\ last.op = "step" /\ last.err = "ok"
    /\ last.item_id # None /\ last.answer_index = NoIndex
    /\ last.next_item # None
    /\ last.session_id \in DOMAIN store
    /\ store[last.session_id].asked # <<>>

\* C33: for every session the key set of theta equals the concept scope
\* fixed at init_session: no step adds a skill to the theta map or removes
\* one from it.
C33_ThetaKeysAreTheScope ==
    \A sid \in DOMAIN store : Keys(store[sid].theta) = Range(store[sid].concepts)

\* C34: every session eventually finishes: a client that keeps calling step
\* and answers each item it is presented sees finished = true, also when the
\* scope holds fewer than max_items items.
C34_EverySessionFinishes ==
    (store # <<>>) ~> (store # <<>> /\ store[1].finished)

(***************************************************************************)
(* Properties of two sessions                                              *)
(***************************************************************************)
\* C24: sessions with different ids are fully independent: the second
\* session's theta, asked and finished and the items presented to it are the
\* same whether or not calls on the first session are interleaved with its
\* calls.
C24_SessionsIndependent ==
    (Len(store) = 2 /\ twin.store # <<>>) =>
        /\ View(store[2]) = View(twin.store[1])
        /\ presented[2] = twin.presented[1]

(***************************************************************************)
(* Properties of overlapping requests                                      *)
(***************************************************************************)
\* the session after the requests of threads t and then u ran one after the
\* other, starting from the session as the first request found it
Serial(t, u) ==
    LET first  == step(<<threads[1].base>>, 1, threads[t].item_id, threads[t].answer_index, 0)
        second == step(first.store, 1, threads[u].item_id, threads[u].answer_index, 0)
    IN  second.store[1]

BothDone == Len(threads) = 2 /\ \A t \in DOMAIN threads : threads[t].pc = "done"

\* C25: mutating operations on one session are serialized: when two
\* overlapping step calls have both returned, the session's theta, asked and
\* finished are those of running the two calls one after the other in some
\* order (no lost theta update, no duplicate in asked).
C25_OverlappingStepsSerialized ==
    BothDone => View(store[1]) \in {View(Serial(1, 2)), View(Serial(2, 1))}

(***************************************************************************)
(* Properties of the attempt                                               *)
(***************************************************************************)
\* step_attempt has built its model for an attempt that init_attempt was
\* called for
SteppedAfterInit ==
    attempt.inited /\ clast.op = "step_attempt" /\ clast.models # <<>>

\* C26: scope and prior fixed at init are held for the lifetime of the
\* attempt: the skills step_attempt builds its model over are the effective
\* scope init_attempt resolved (modules, or all concepts), and a skill without
\* responses stands at the prior init_attempt resolved.
C26_ScopeAndPriorHeld ==
    SteppedAfterInit =>
        /\ Keys(clast.models) = Range(attempt.effective_concepts)
        /\ \A i \in DOMAIN clast.models :
              clast.models[i].v.response_pattern = <<>>
                  => clast.models[i].v.ability_level = attempt.prior_mu

\* the stored responses of the attempt that answer items of skill k, in order
ResponsesOf(k) ==
    LET Of(row) == DbItem(row.itemId).moduleId = k IN SelectSeq(responses, Of)

\* the pool step_attempt builds for skill k before any response is applied
FreshPool(k) == build_item_pools(list_eligible_items_for_quiz).pools[k]

\* every stored response answers an active item of its own, one that the
\* lookup by IRT parameters finds in the freshly built pools
PlainHistory ==
    /\ \A i, j \in DOMAIN responses : responses[i].itemId = responses[j].itemId => i = j
    /\ \A i \in DOMAIN responses :
          /\ DbItem(responses[i].itemId).active
          /\ find_test_item_by_irt_params(
                 build_multidim_model(build_item_pools(list_eligible_items_for_quiz).concepts,
                                      build_item_pools(list_eligible_items_for_quiz).pools,
                                      settings_prior_mu, default_mastery_threshold),
                 DbItem(responses[i].itemId).irtB) = responses[i].itemId

\* step_attempt was called for the latest stored response and built its model
SteppedOnLatest ==
    /\ clast.op = "step_attempt" /\ clast.models # <<>>
    /\ responses # <<>> /\ clast.response_id = Len(responses)

\* C30: theta is recomputed from the full response history: after
\* step_attempt every skill's model holds each stored response of the attempt
\* for that skill exactly once and in answer order, each having removed its
\* own item from the skill's pool, and the skill's theta is the estimate over
\* that whole history.
C30_ThetaFromFullHistory ==
    (SteppedOnLatest /\ PlainHistory) =>
        \A i \in DOMAIN clast.models :
            LET m    == clast.models[i].v
                rows == ResponsesOf(clast.models[i].k)
                pattern  == [n \in DOMAIN rows |-> IF rows[n].isCorrect THEN 1 ELSE 0]
                answered == [n \in DOMAIN rows |-> rows[n].itemId]
            IN  /\ m.response_pattern = pattern
                /\ m.answered_items = answered
                /\ Range(m.item_pool) = Range(FreshPool(clast.models[i].k)) \ Range(answered)
                /\ rows # <<>> =>
                       m.ability_level = estimate_ability_level(pattern, answered).est

(***************************************************************************)
(* Properties of what step_attempt reports                                 *)
(***************************************************************************)
\* step_attempt was called for the attempt with nothing to replay, and what
\* it was given to apply raised nothing
SteppedCleanly ==
    /\ clast.op = "step_attempt" /\ clast.models # <<>>
    /\ \A i \in DOMAIN responses : i = clast.response_id
    /\ clast.applied.apply_err = "ok"
    /\ clast.err \notin {"Unknown item_id", "IndexError"}

\* the skill at position i of ms is neither mastered nor out of items
EligibleIn(ms, i) == ~ms[i].v.mastery_reached /\ ms[i].v.item_pool # <<>>

\* C31: step_attempt returns is_finished = true if and only if, after the
\* responses were applied, every skill is mastered or has an empty pool, and
\* whenever is_finished is false the next item is in the pool of an
\* unmastered skill.
C31_FinishedIffNothingLeft ==
    SteppedCleanly =>
        /\ clast.err = "ok"
        /\ is_finished(clast.models) <=>
               \A i \in DOMAIN clast.models : ~EligibleIn(clast.models, i)
        /\ ~is_finished(clast.models) =>
               \E i \in DOMAIN clast.models :
                   /\ ~clast.models[i].v.mastery_reached
                   /\ choose_next_item(clast.models).item
                          \in Range(clast.models[i].v.item_pool)

\* step_attempt has computed theta and mastery over the model it built
ComputedMastery == clast.op = "step_attempt" /\ clast.models # <<>>

\* C32: the per-skill mastery step_attempt reports agrees with the stopping
\* rule the engine applies: for every skill the reported mastery is true
\* exactly when the skill's mastery_reached flag is true.
C32_ReportedMasteryIsTheFlag ==
    ComputedMastery =>
        \A i \in DOMAIN clast.models :
            reported_mastery(clast.models, default_mastery_threshold)[i].v
                = clast.models[i].v.mastery_reached

\* C36: step_attempt changes the theta only of skills a response was applied
\* for: for a skill of the attempt's scope without a response, the theta
\* step_attempt computes is the theta init_attempt started that skill with.
C36_ThetaOfUnansweredSkillsKept ==
    SteppedAfterInit =>
        \A i \in DOMAIN clast.models :
            (/\ clast.models[i].k \in Range(attempt.effective_concepts)
             /\ clast.models[i].v.answered_items = <<>>)
                => reported_theta(clast.models)[i].v = attempt.prior_mu

(***************************************************************************)
(* Properties of overlapping step_attempt calls                            *)
(***************************************************************************)
\* two step_attempt calls, for two different responses, have both ended
BothEnded == Len(threads) = 2 /\ \A t \in DOMAIN threads : threads[t].pc = "done"

\* the thetas task t computed are, for every skill, the estimate over all the
\* stored responses of the attempt for that skill
OverAllResponses(t) ==
    \A i \in DOMAIN TaskOutcome(t).models :
        LET rows == ResponsesOf(TaskOutcome(t).models[i].k)
            pattern  == [n \in DOMAIN rows |-> IF rows[n].isCorrect THEN 1 ELSE 0]
            answered == [n \in DOMAIN rows |-> rows[n].itemId]
        IN  reported_theta(TaskOutcome(t).models)[i].v =
                IF rows = <<>> THEN settings_prior_mu
                ELSE estimate_ability_level(pattern, answered).est

\* C35: when two step_attempt calls of one attempt, for two different
\* responses, overlap at their awaits, then after both have ended the theta
\* persisted last is, for every skill, the estimate over all responses of
\* the attempt: the later write does not come from a response list that
\* misses one of the two responses.
C35_LaterWriteCoversBothResponses ==
    BothEnded =>
        \E t \in DOMAIN threads :
            /\ threads[t].wrote > 0
            /\ \A u \in DOMAIN threads : threads[u].wrote <= threads[t].wrote
            /\ OverAllResponses(t)

(***************************************************************************)
(* Properties of the hardcoded core                                        *)
(***************************************************************************)
\* the item ids of SAMPLE_ITEMS, in list order
SampleIds == [n \in DOMAIN SAMPLE_ITEMS |-> SAMPLE_ITEMS[n].item_id]

\* C37: in the hardcoded core, between two init_attempt calls for an attempt
\* the items returned by init_attempt and the following step_attempt calls are
\* the SAMPLE_ITEMS in list order, each exactly once; step_attempt returns
\* next_item = None exactly when it returns is_finished = true; and
\* is_finished stays true on every later step_attempt.
C37_HardcodedRoundRobin ==
    [][/\ \A i \in DOMAIN returned' :
             /\ Len(returned'[i].v) <= Len(SampleIds)
             /\ returned'[i].v = SubSeq(SampleIds, 1, Len(returned'[i].v))
       /\ hlast'.op = "step_attempt" =>
             (hlast'.next_item = None <=> hlast'.is_finished)
       /\ \A a \in Keys(attempt_states) :
             (/\ is_attempt_finished(attempt_states, a)
              /\ hlast'.op = "step_attempt" /\ hlast'.attempt_id = a)
                 => (hlast'.is_finished /\ is_attempt_finished(attempt_states', a))
      ]_vars

\* a step_attempt on an attempt that was already finished, all five items
\* having been returned since its init_attempt, while another attempt is
\* under way
C37_Witness ==
    /\ hlast.op = "step_attempt" /\ hlast.is_finished
    /\ Get(returned, hlast.attempt_id, <<>>) = SampleIds
    /\ "item_001" \in Get(attempt_states, hlast.attempt_id, NewAttemptState).answered_items
    /\ \E i \in DOMAIN returned :
          returned[i].k # hlast.attempt_id /\ Len(returned[i].v) \in 1..2

====
